---- MODULE Spec2Model ----
(***************************************************************************)
(* Model of src/Implied_PE_Multiple.py: ImpliedPECalculator.               *)
(*                                                                         *)
(* The calculator is stateless; each of its three methods is a function    *)
(* of its arguments.  A behaviour is one call: Init draws the method and   *)
(* its arguments, the method's action applies it and records what the      *)
(* caller observes (a returned value or a raised exception).               *)
(*                                                                         *)
(* Numbers.  Prices and EPS are integers.  Growth rates and payout ratios  *)
(* are fixed-point thousandths (0.10 is 100, -1 is -1000), so Scale is the *)
(* number 1.  Computed values are exact fractions <<n, d>> in lowest terms *)
(* with d > 0; NaN is <<0, 0>>.  The code computes in IEEE doubles; the    *)
(* model abstracts rounding error away.                                    *)
(***************************************************************************)
EXTENDS Integers, Sequences, FiniteSets, TLC

VARIABLES method, args, pc, outcome

vars == <<method, args, pc, outcome>>

(***************************************************************************)
(* Bounds of the model.                                                    *)
(***************************************************************************)
MaxPeers == 3
MaxScenarios == 2

(***************************************************************************)
(* Arithmetic on exact fractions.                                          *)
(***************************************************************************)
Scale == 1000

Abs(x) == IF x < 0 THEN -x ELSE x

RECURSIVE GCD(_, _)
GCD(a, b) == IF b = 0 THEN a ELSE GCD(b, a % b)

\* n / d in lowest terms, sign carried by the numerator (d # 0).
Rat(n, d) ==
    LET s == IF d < 0 THEN -1 ELSE 1
        g == GCD(Abs(n), Abs(d))
    IN  <<(s * n) \div g, (s * d) \div g>>

NaN == <<0, 0>>

IsNaN(a) == a[2] = 0

RatLess(a, b) == a[1] * b[2] < b[1] * a[2]

RatLeq(a, b) == a[1] * b[2] <= b[1] * a[2]

RatAdd(a, b) == Rat(a[1] * b[2] + b[1] * a[2], a[2] * b[2])

RatDivInt(a, k) == Rat(a[1], a[2] * k)

(***************************************************************************)
(* What a call gives its caller.                                           *)
(***************************************************************************)
Pending == [exc |-> "none", value |-> <<>>]

Return(v) == [exc |-> "none", value |-> <<v>>]

Raise(e) == [exc |-> e, value |-> <<>>]

(***************************************************************************)
(* calculate_implied_pe                                                    *)
(***************************************************************************)
\* Variant: the retention ratio is applied to the growth of earnings.
calculate_implied_pe_retention(current_price, current_eps, growth_rate, payout_ratio) ==
    LET retention_ratio == Scale - payout_ratio
        forward_eps == Rat(current_eps * (Scale * Scale + growth_rate * retention_ratio),
                           Scale * Scale)
    IN  IF forward_eps[1] = 0
        THEN Raise("ZeroDivisionError")
        ELSE Return(Rat(current_price * forward_eps[2], forward_eps[1]))

\* Variant: a zero forward EPS is guarded and yields 0 instead of raising.
calculate_implied_pe_guarded(current_price, current_eps, growth_rate, payout_ratio) ==
    LET retention_ratio == Scale - payout_ratio
        forward_eps == Rat(current_eps * (Scale + growth_rate), Scale)
    IN  IF forward_eps[1] = 0
        THEN Return(<<0, 1>>)
        ELSE Return(Rat(current_price * forward_eps[2], forward_eps[1]))

calculate_implied_pe(current_price, current_eps, growth_rate, payout_ratio) ==
    LET retention_ratio == Scale - payout_ratio
        forward_eps == Rat(current_eps * (Scale + growth_rate), Scale)
    IN  IF forward_eps[1] = 0
        THEN Raise("ZeroDivisionError")
        ELSE Return(Rat(current_price * forward_eps[2], forward_eps[1]))

(***************************************************************************)
(* Insertion-ordered dict: a sequence of <<key, value>> with distinct keys.*)
(***************************************************************************)
DictKeys(d) == [i \in 1..Len(d) |-> d[i][1]]

DictValues(d) == [i \in 1..Len(d) |-> d[i][2]]

HasKey(d, k) == \E i \in 1..Len(d) : d[i][1] = k

\* d[k] = v : an existing key keeps its position, a new key goes last.
DictSet(d, k, v) ==
    IF HasKey(d, k)
    THEN [i \in 1..Len(d) |-> IF d[i][1] = k THEN <<k, v>> ELSE d[i]]
    ELSE Append(d, <<k, v>>)

(***************************************************************************)
(* np.median of a list of finite numbers.                                  *)
(***************************************************************************)
\* Variant: the middle of the list as given, without sorting.
median_unsorted(a) ==
    LET n == Len(a)
    IN  IF n = 0 THEN NaN
        ELSE IF n % 2 = 1 THEN a[(n + 1) \div 2]
        ELSE RatDivInt(RatAdd(a[n \div 2], a[n \div 2 + 1]), 2)

\* Variant: the lower middle value for an even count.
median_low(a) ==
    LET n == Len(a)
        s == SortSeq(a, RatLess)
    IN  IF n = 0 THEN NaN ELSE s[(n + 1) \div 2]

median(a) ==
    LET n == Len(a)
        s == SortSeq(a, RatLess)
    IN  IF n = 0 THEN NaN
        ELSE IF n % 2 = 1 THEN s[(n + 1) \div 2]
        ELSE RatDivInt(RatAdd(s[n \div 2], s[n \div 2 + 1]), 2)

(***************************************************************************)
(* calculate_industry_implied_pe                                           *)
(***************************************************************************)
\* The for loop of lines 43-44 from peer i on; an exception leaves the loop
\* and the function, and pe_multiples is lost with the frame.
RECURSIVE industry_loop(_, _, _)
industry_loop(peer_data, i, pe_multiples) ==
    IF i > Len(peer_data)
    THEN Return(pe_multiples)
    ELSE LET company == peer_data[i][1]
             price == peer_data[i][2][1]
             eps == peer_data[i][2][2]
             growth == peer_data[i][2][3]
             pe == calculate_implied_pe(price, eps, growth, 0)
         IN  IF pe.exc # "none"
             THEN pe
             ELSE industry_loop(peer_data, i + 1,
                                DictSet(pe_multiples, company, pe.value[1]))

\* Variant: a peer whose PE cannot be computed is skipped.
RECURSIVE industry_loop_skip(_, _, _)
industry_loop_skip(peer_data, i, pe_multiples) ==
    IF i > Len(peer_data)
    THEN Return(pe_multiples)
    ELSE LET company == peer_data[i][1]
             price == peer_data[i][2][1]
             eps == peer_data[i][2][2]
             growth == peer_data[i][2][3]
             pe == calculate_implied_pe(price, eps, growth, 0)
         IN  IF pe.exc # "none"
             THEN industry_loop_skip(peer_data, i + 1, pe_multiples)
             ELSE industry_loop_skip(peer_data, i + 1,
                                     DictSet(pe_multiples, company, pe.value[1]))

calculate_industry_implied_pe_skip(peer_data) ==
    LET loop == industry_loop_skip(peer_data, 1, <<>>)
        pe_multiples == loop.value[1]
        median_pe == median(DictValues(pe_multiples))
    IN  Return([individual_multiples |-> pe_multiples, median_pe |-> median_pe])

\* Variant: an empty peer_data is rejected.
calculate_industry_implied_pe_nonempty(peer_data) ==
    LET loop == industry_loop(peer_data, 1, <<>>)
    IN  IF loop.exc # "none" THEN loop
        ELSE IF Len(peer_data) = 0 THEN Raise("ValueError")
        ELSE LET pe_multiples == loop.value[1]
                 median_pe == median(DictValues(pe_multiples))
             IN  Return([individual_multiples |-> pe_multiples,
                         median_pe |-> median_pe])

\* Variant: the multiples are collected from the last peer to the first.
calculate_industry_implied_pe_reversed(peer_data) ==
    LET loop == industry_loop([i \in 1..Len(peer_data) |->
                                  peer_data[Len(peer_data) + 1 - i]], 1, <<>>)
    IN  IF loop.exc # "none" THEN loop
        ELSE LET pe_multiples == loop.value[1]
                 median_pe == median(DictValues(pe_multiples))
             IN  Return([individual_multiples |-> pe_multiples,
                         median_pe |-> median_pe])

calculate_industry_implied_pe(peer_data) ==
    LET loop == industry_loop(peer_data, 1, <<>>)
    IN  IF loop.exc # "none" THEN loop
        ELSE LET pe_multiples == loop.value[1]
                 median_pe == median(DictValues(pe_multiples))
             IN  Return([individual_multiples |-> pe_multiples,
                         median_pe |-> median_pe])

(***************************************************************************)
(* Formatting.                                                             *)
(***************************************************************************)
\* f'{g:.1%}' of a rate in thousandths: 100 is "10.0%", -5 is "-0.5%".
FormatPercent1(g) ==
    LET a == Abs(g)
    IN  (IF g < 0 THEN "-" ELSE "") \o ToString(a \div 10) \o "."
            \o ToString(a % 10) \o "%"

\* f"{pe:.2f}" of a fraction: two decimals, rounded to nearest (ties to even).
Format2f(r) ==
    LET N == Abs(r[1]) * 100
        q0 == N \div r[2]
        rem == N % r[2]
        q == IF 2 * rem > r[2] \/ (2 * rem = r[2] /\ q0 % 2 = 1) THEN q0 + 1 ELSE q0
        frac == q % 100
    IN  (IF r[1] < 0 THEN "-" ELSE "") \o ToString(q \div 100) \o "."
            \o (IF frac < 10 THEN "0" ELSE "") \o ToString(frac)

(***************************************************************************)
(* sensitivity_analysis                                                    *)
(***************************************************************************)
\* pd.DataFrame(data, index=..., columns=...): a dense table with parallel
\* row and column labels; labels may repeat.
DataFrame(data, index, columns) ==
    [values |-> data, index |-> index, columns |-> columns]

\* The inner loop of lines 71-74 from payout j on.
RECURSIVE row_loop(_, _, _, _, _, _)
row_loop(current_price, current_eps, growth, payout_ratios, j, row) ==
    IF j > Len(payout_ratios)
    THEN Return(row)
    ELSE LET pe == calculate_implied_pe(current_price, current_eps, growth,
                                        payout_ratios[j])
         IN  IF pe.exc # "none"
             THEN pe
             ELSE row_loop(current_price, current_eps, growth, payout_ratios,
                           j + 1, Append(row, pe.value[1]))

\* The outer loop of lines 69-75 from growth rate i on.
RECURSIVE matrix_loop(_, _, _, _, _, _)
matrix_loop(current_price, current_eps, growth_rates, payout_ratios, i, sensitivity_matrix) ==
    IF i > Len(growth_rates)
    THEN Return(sensitivity_matrix)
    ELSE LET row == row_loop(current_price, current_eps, growth_rates[i],
                             payout_ratios, 1, <<>>)
         IN  IF row.exc # "none"
             THEN row
             ELSE matrix_loop(current_price, current_eps, growth_rates,
                              payout_ratios, i + 1,
                              Append(sensitivity_matrix, row.value[1]))

Labels(rates) == [i \in 1..Len(rates) |-> FormatPercent1(rates[i])]

\* Variant: payout is the outer (row) dimension of the loops.
sensitivity_analysis_transposed(current_price, current_eps, growth_rates, payout_ratios) ==
    LET cell(p, g) == calculate_implied_pe(current_price, current_eps, g, p)
        failed == \E p \in 1..Len(payout_ratios), g \in 1..Len(growth_rates) :
                     cell(payout_ratios[p], growth_rates[g]).exc # "none"
    IN  IF failed THEN Raise("ZeroDivisionError")
        ELSE Return(DataFrame(
                 [p \in 1..Len(payout_ratios) |->
                     [g \in 1..Len(growth_rates) |->
                         cell(payout_ratios[p], growth_rates[g]).value[1]]],
                 Labels(growth_rates), Labels(payout_ratios)))

\* Variant: a label that was already used is not added again.
RECURSIVE UniqueLabels(_)
UniqueLabels(labels) ==
    IF labels = <<>> THEN <<>>
    ELSE LET front == UniqueLabels(SubSeq(labels, 1, Len(labels) - 1))
             last == labels[Len(labels)]
         IN  IF \E k \in 1..Len(front) : front[k] = last
             THEN front ELSE Append(front, last)

sensitivity_analysis_unique(current_price, current_eps, growth_rates, payout_ratios) ==
    LET m == matrix_loop(current_price, current_eps, growth_rates,
                         payout_ratios, 1, <<>>)
    IN  IF m.exc # "none" THEN m
        ELSE Return(DataFrame(m.value[1], UniqueLabels(Labels(growth_rates)),
                              UniqueLabels(Labels(payout_ratios))))

\* Variant: the forward EPS of a row is computed before its inner loop.
sensitivity_analysis_hoisted(current_price, current_eps, growth_rates, payout_ratios) ==
    LET m == matrix_loop(current_price, current_eps, growth_rates,
                         payout_ratios, 1, <<>>)
        zero == \E i \in 1..Len(growth_rates) :
                   calculate_implied_pe(current_price, current_eps,
                                        growth_rates[i], 0).exc # "none"
    IN  IF zero THEN Raise("ZeroDivisionError")
        ELSE Return(DataFrame(m.value[1], Labels(growth_rates),
                              Labels(payout_ratios)))

sensitivity_analysis(current_price, current_eps, growth_rates, payout_ratios) ==
    LET m == matrix_loop(current_price, current_eps, growth_rates,
                         payout_ratios, 1, <<>>)
    IN  IF m.exc # "none" THEN m
        ELSE Return(DataFrame(m.value[1],
                              [i \in 1..Len(growth_rates) |->
                                  FormatPercent1(growth_rates[i])],
                              [j \in 1..Len(payout_ratios) |->
                                  FormatPercent1(payout_ratios[j])]))

(***************************************************************************)
(* Inputs.                                                                 *)
(***************************************************************************)
SeqsUpTo(S, n) == UNION {[1..k -> S] : k \in 0..n}

Prices == {0, 80, 100, 120}

EPSValues == {-5, 0, 4, 5, 6}

GrowthRates == {-1000, -5, 80, 100, 120}

PayoutRatios == {0, 300, 1000}

CompanyNames == <<"Company A", "Company B", "Company C", "Company D", "Company E">>

Companies == {CompanyNames[i] : i \in 1..MaxPeers}

\* (price, eps, growth): the three peers of main, a peer with eps = 0, a peer
\* with growth = -1, and a peer with negative earnings.
PeerTuples ==
    {<<100, 5, 100>>, <<80, 4, 80>>, <<120, 6, 120>>,
     <<100, 0, 100>>, <<80, 4, -1000>>, <<90, -5, 100>>}

PeerDatas ==
    {d \in SeqsUpTo(Companies \X PeerTuples, MaxPeers) :
        \A i, j \in 1..Len(d) : i # j => d[i][1] # d[j][1]}

MainPeerData ==
    << <<"Company A", <<100, 5, 100>> >>,
       <<"Company B", <<80, 4, 80>> >>,
       <<"Company C", <<120, 6, 120>> >> >>

ScenarioPrices == {0, 100}

ScenarioEPS == {0, 5}

GrowthScenarios == {-1000, -5, 100, 105}

PayoutScenarios == {0, 300, 305}

(***************************************************************************)
(* The state machine: one call of one method.                              *)
(***************************************************************************)
Init ==
    /\ pc = "called"
    /\ outcome = Pending
    /\ \/ /\ method = "calculate_implied_pe"
          /\ args \in [current_price : Prices, current_eps : EPSValues,
                       growth_rate : GrowthRates, payout_ratio : PayoutRatios]
       \/ /\ method = "calculate_industry_implied_pe"
          /\ args \in [peer_data : PeerDatas]
       \/ /\ method = "sensitivity_analysis"
          /\ args \in [current_price : ScenarioPrices, current_eps : ScenarioEPS,
                       growth_rates : SeqsUpTo(GrowthScenarios, MaxScenarios),
                       payout_ratios : SeqsUpTo(PayoutScenarios, MaxScenarios)]

Finish(o) ==
    /\ outcome' = o
    /\ pc' = IF o.exc = "none" THEN "returned" ELSE "raised"
    /\ UNCHANGED <<method, args>>

CalculateImpliedPE ==
    /\ pc = "called"
    /\ method = "calculate_implied_pe"
    /\ Finish(calculate_implied_pe(args.current_price, args.current_eps,
                                   args.growth_rate, args.payout_ratio))

CalculateIndustryImpliedPE ==
    /\ pc = "called"
    /\ method = "calculate_industry_implied_pe"
    /\ Finish(calculate_industry_implied_pe(args.peer_data))

SensitivityAnalysis ==
    /\ pc = "called"
    /\ method = "sensitivity_analysis"
    /\ Finish(sensitivity_analysis(args.current_price, args.current_eps,
                                   args.growth_rates, args.payout_ratios))

Next == CalculateImpliedPE \/ CalculateIndustryImpliedPE \/ SensitivityAnalysis

Spec == Init /\ [][Next]_vars

(***************************************************************************)
(* Properties.                                                             *)
(***************************************************************************)
IsCall(m) == method = m /\ pc # "called"

\* Forward EPS eps * (1 + growth) is zero.
ZeroForwardEPS(eps, growth) == eps * (Scale + growth) = 0

PeerFails(peer) == ZeroForwardEPS(peer[2][2], peer[2][3])

\* C1: for price > 0, eps > 0 and growth_rate > -1, calculate_implied_pe
\* returns exactly price / (eps * (1 + growth_rate)), and the same result
\* for every payout_ratio.
C1_ImpliedPEFormula ==
    (/\ IsCall("calculate_implied_pe")
     /\ args.current_price > 0
     /\ args.current_eps > 0
     /\ args.growth_rate > -Scale)
    => /\ pc = "returned"
       /\ LET r == outcome.value[1]
          IN  /\ r[2] > 0
              /\ r[1] * args.current_eps * (Scale + args.growth_rate)
                     = args.current_price * Scale * r[2]
       /\ \A p \in PayoutRatios :
             calculate_implied_pe(args.current_price, args.current_eps,
                                  args.growth_rate, p) = outcome

C1_Witness ==
    /\ IsCall("calculate_implied_pe")
    /\ args = [current_price |-> 100, current_eps |-> 5, growth_rate |-> 100,
               payout_ratio |-> 300]
    /\ outcome = Return(<<200, 11>>)

\* C2: calculate_implied_pe raises ZeroDivisionError and returns no value
\* whenever forward EPS is zero, in particular for eps = 0 with any growth
\* rate and for growth_rate = -1 with any nonzero eps.
C2_ZeroForwardEPSRaises ==
    (/\ IsCall("calculate_implied_pe")
     /\ \/ ZeroForwardEPS(args.current_eps, args.growth_rate)
        \/ args.current_eps = 0
        \/ args.growth_rate = -Scale)
    => /\ pc = "raised"
       /\ outcome.exc = "ZeroDivisionError"
       /\ outcome.value = <<>>

C2_Witness ==
    /\ IsCall("calculate_implied_pe")
    /\ args.growth_rate = -Scale
    /\ args.current_eps # 0
    /\ args.current_price > 0
    /\ pc = "raised"

\* C3: when every growth rate gives a nonzero forward EPS,
\* sensitivity_analysis returns a table of len(growth_rates) rows and
\* len(payout_ratios) columns whose cell (i, j) is
\* calculate_implied_pe(price, eps, growth_rates[i], payout_ratios[j]).
C3_SensitivityGrid ==
    (/\ IsCall("sensitivity_analysis")
     /\ \A i \in 1..Len(args.growth_rates) :
           ~ZeroForwardEPS(args.current_eps, args.growth_rates[i]))
    => /\ pc = "returned"
       /\ LET df == outcome.value[1]
              G == Len(args.growth_rates)
              P == Len(args.payout_ratios)
          IN  /\ Len(df.index) = G
              /\ Len(df.columns) = P
              /\ Len(df.values) = G
              /\ \A i \in 1..G :
                    /\ Len(df.values[i]) = P
                    /\ \A j \in 1..P :
                          Return(df.values[i][j]) =
                              calculate_implied_pe(args.current_price,
                                  args.current_eps, args.growth_rates[i],
                                  args.payout_ratios[j])

C3_Witness ==
    /\ IsCall("sensitivity_analysis")
    /\ args = [current_price |-> 100, current_eps |-> 5,
               growth_rates |-> <<105, 100>>, payout_ratios |-> <<300>>]
    /\ pc = "returned"
    /\ outcome.value[1].values = << <<<<4000, 221>>>>, <<<<200, 11>>>> >>

\* C4: for a non-empty peer_data whose peers all have nonzero forward EPS,
\* 'individual_multiples' has the keys of peer_data in the order of
\* peer_data, each with the value calculate_implied_pe(price, eps, growth)
\* (payout ratio 0); the peers of main give 18.18, 18.52, 17.86.
C4_IndividualMultiples ==
    (/\ IsCall("calculate_industry_implied_pe")
     /\ Len(args.peer_data) > 0
     /\ \A i \in 1..Len(args.peer_data) : ~PeerFails(args.peer_data[i]))
    => /\ pc = "returned"
       /\ LET im == outcome.value[1].individual_multiples
              pd == args.peer_data
          IN  /\ Len(im) = Len(pd)
              /\ \A i \in 1..Len(pd) :
                    /\ im[i][1] = pd[i][1]
                    /\ Return(im[i][2]) =
                          calculate_implied_pe(pd[i][2][1], pd[i][2][2],
                                               pd[i][2][3], 0)
              /\ pd = MainPeerData =>
                    [i \in 1..3 |-> Format2f(im[i][2])]
                        = <<"18.18", "18.52", "17.86">>

C4_Witness ==
    /\ IsCall("calculate_industry_implied_pe")
    /\ args.peer_data = MainPeerData
    /\ pc = "returned"
    /\ DictKeys(outcome.value[1].individual_multiples)
           = <<"Company A", "Company B", "Company C">>

CountLess(vals, x) == Cardinality({i \in 1..Len(vals) : RatLess(vals[i], x)})

CountLeq(vals, x) == Cardinality({i \in 1..Len(vals) : RatLeq(vals[i], x)})

\* x is the k-th smallest of vals, counted with multiplicity.
IsKthSmallest(vals, x, k) ==
    /\ \E i \in 1..Len(vals) : vals[i] = x
    /\ CountLess(vals, x) <= k - 1
    /\ CountLeq(vals, x) >= k

\* C5: for a non-empty peer_data, 'median_pe' is the standard median of the
\* individual multiples: the middle value in numeric order for an odd
\* count, the average of the two middle values for an even count.
C5_StandardMedian ==
    (/\ IsCall("calculate_industry_implied_pe")
     /\ pc = "returned"
     /\ Len(args.peer_data) > 0)
    => LET vals == DictValues(outcome.value[1].individual_multiples)
           m == outcome.value[1].median_pe
           n == Len(vals)
       IN  /\ n = Len(args.peer_data)
           /\ ~IsNaN(m)
           /\ IF n % 2 = 1
              THEN IsKthSmallest(vals, m, (n + 1) \div 2)
              ELSE \E i, j \in 1..n :
                      /\ IsKthSmallest(vals, vals[i], n \div 2)
                      /\ IsKthSmallest(vals, vals[j], n \div 2 + 1)
                      /\ RatAdd(vals[i], vals[j]) = RatAdd(m, m)

C5_Witness ==
    /\ IsCall("calculate_industry_implied_pe")
    /\ pc = "returned"
    /\ Len(args.peer_data) = 2
    /\ LET vals == DictValues(outcome.value[1].individual_multiples)
           m == outcome.value[1].median_pe
       IN  /\ RatLess(vals[2], m)
           /\ RatLess(m, vals[1])

\* C6 as stated: calculate_industry_implied_pe with an empty peer_data
\* raises an empty-input error.
C6_EmptyRaises ==
    (/\ IsCall("calculate_industry_implied_pe")
     /\ args.peer_data = <<>>)
    => pc = "raised"

\* C6: calculate_industry_implied_pe with an empty peer_data raises nothing:
\* it returns an empty 'individual_multiples' and NaN as 'median_pe'.
C6_EmptyReturnsNaN ==
    (/\ IsCall("calculate_industry_implied_pe")
     /\ args.peer_data = <<>>)
    => /\ pc = "returned"
       /\ outcome.exc = "none"
       /\ outcome.value[1].individual_multiples = <<>>
       /\ IsNaN(outcome.value[1].median_pe)

C6_Witness ==
    /\ IsCall("calculate_industry_implied_pe")
    /\ args.peer_data = <<>>
    /\ pc = "returned"
    /\ outcome.value[1].median_pe = NaN

\* C7: if any peer has zero forward EPS, calculate_industry_implied_pe
\* raises ZeroDivisionError for the whole call, wherever that peer stands:
\* neither individual multiples nor a median are returned.
C7_PeerFailureFailsCall ==
    (/\ IsCall("calculate_industry_implied_pe")
     /\ \E i \in 1..Len(args.peer_data) : PeerFails(args.peer_data[i]))
    => /\ pc = "raised"
       /\ outcome.exc = "ZeroDivisionError"
       /\ outcome.value = <<>>

C7_Witness ==
    /\ IsCall("calculate_industry_implied_pe")
    /\ Len(args.peer_data) = 3
    /\ ~PeerFails(args.peer_data[1])
    /\ ~PeerFails(args.peer_data[2])
    /\ PeerFails(args.peer_data[3])
    /\ pc = "raised"

Reorderings(d) ==
    {[i \in 1..Len(d) |-> d[f[i]]] : f \in Permutations(1..Len(d))}

\* C8: two peer_data mappings with the same entries in different orders
\* give the same 'median_pe'.
C8_MedianOrderInvariant ==
    (/\ IsCall("calculate_industry_implied_pe")
     /\ pc = "returned")
    => \A q \in Reorderings(args.peer_data) :
          LET other == calculate_industry_implied_pe(q)
          IN  /\ other.exc = "none"
              /\ other.value[1].median_pe = outcome.value[1].median_pe

C8_Witness ==
    /\ IsCall("calculate_industry_implied_pe")
    /\ pc = "returned"
    /\ Len(args.peer_data) = 3
    /\ LET vals == DictValues(outcome.value[1].individual_multiples)
       IN  /\ RatLess(vals[3], vals[1])
           /\ RatLess(vals[1], vals[2])
           /\ outcome.value[1].median_pe = vals[1]

\* The labels Python gives the scenario values of the model.
ExpectedLabel(g) ==
    CASE g = -1000 -> "-100.0%"
      [] g = -5 -> "-0.5%"
      [] g = 0 -> "0.0%"
      [] g = 100 -> "10.0%"
      [] g = 105 -> "10.5%"
      [] g = 300 -> "30.0%"
      [] g = 305 -> "30.5%"

\* C9: the table of sensitivity_analysis has one row label per growth rate
\* and one column label per payout ratio, in input order, each the value as
\* a percentage with one decimal place (0.10 is "10.0%"); duplicate inputs
\* give duplicate labels and duplicate rows or columns.
C9_Labels ==
    (/\ IsCall("sensitivity_analysis")
     /\ pc = "returned")
    => LET df == outcome.value[1]
           G == Len(args.growth_rates)
           P == Len(args.payout_ratios)
       IN  /\ Len(df.index) = G
           /\ Len(df.columns) = P
           /\ \A i \in 1..G : df.index[i] = ExpectedLabel(args.growth_rates[i])
           /\ \A j \in 1..P : df.columns[j] = ExpectedLabel(args.payout_ratios[j])
           /\ \A i, k \in 1..G :
                 args.growth_rates[i] = args.growth_rates[k]
                     => df.index[i] = df.index[k] /\ df.values[i] = df.values[k]
           /\ \A j, k \in 1..P :
                 args.payout_ratios[j] = args.payout_ratios[k]
                     => /\ df.columns[j] = df.columns[k]
                        /\ \A i \in 1..G : df.values[i][j] = df.values[i][k]

C9_Witness ==
    /\ IsCall("sensitivity_analysis")
    /\ pc = "returned"
    /\ args.growth_rates = <<100, 100>>
    /\ args.payout_ratios = <<305, 0>>
    /\ outcome.value[1].index = <<"10.0%", "10.0%">>
    /\ outcome.value[1].columns = <<"30.5%", "0.0%">>

\* C10: with a non-empty payout_ratios, a growth rate that gives zero
\* forward EPS makes sensitivity_analysis raise ZeroDivisionError and
\* return no table, even after rows of earlier growth rates; with an empty
\* payout_ratios no cell is evaluated and the call does not fail.
C10_SensitivityFailure ==
    IsCall("sensitivity_analysis")
    => /\ (/\ Len(args.payout_ratios) > 0
           /\ \E i \in 1..Len(args.growth_rates) :
                 ZeroForwardEPS(args.current_eps, args.growth_rates[i]))
          => /\ pc = "raised"
             /\ outcome.exc = "ZeroDivisionError"
             /\ outcome.value = <<>>
       /\ Len(args.payout_ratios) = 0 => pc = "returned"

C10_Witness ==
    /\ IsCall("sensitivity_analysis")
    /\ args.current_eps = 5
    /\ args.growth_rates = <<100, -1000>>
    /\ Len(args.payout_ratios) > 0
    /\ pc = "raised"

====
